---- MODULE Spec2Model ----
(***************************************************************************)
(* Settlement engine of the tipping service (streamlit_dashboard.py) and   *)
(* the dashboard's profit recomputation (streamlit_dashboard_app.py).      *)
(*                                                                         *)
(* Representation                                                          *)
(*   - a Python str is a sequence of one-character strings, so that        *)
(*     lower(), strip(), replace() and the regular expression of           *)
(*     load_results are computed, not assumed;                             *)
(*   - a price is an integer number of hundredths (4.22 is 422); a missing *)
(*     or null price is 0, which is what `x or 0` makes of it;             *)
(*   - a profit is an integer number of hundredths (cents); intermediate   *)
(*     values are thousandths (mills) and round(x, 2) rounds mills to      *)
(*     cents;                                                              *)
(*   - a Date cell is a sequence of tokens: the day, optionally followed   *)
(*     by the legacy "_realistic" tag;                                     *)
(*   - the pass-through columns Trainer, Jockey and Value take no part in  *)
(*     matching, settlement or merging and are left out of the rows.       *)
(***************************************************************************)
EXTENDS Integers, Sequences, FiniteSets, TLC

(***************************************************************************)
(* Bounds of the model.                                                    *)
(***************************************************************************)
MaxTips == 2
MaxLogTips == 2
MaxRuns == 3

(***************************************************************************)
(* Python str operations on character sequences.                           *)
(***************************************************************************)
UpperChars == <<"A","B","C","D","E","F","G","H","I","J","K","L","M",
                "N","O","P","Q","R","S","T","U","V","W","X","Y","Z">>
LowerChars == <<"a","b","c","d","e","f","g","h","i","j","k","l","m",
                "n","o","p","q","r","s","t","u","v","w","x","y","z">>
Whitespace == {" ", "\t"}

LowerChar(c) ==
    IF \E i \in 1..Len(UpperChars) : UpperChars[i] = c
    THEN LowerChars[CHOOSE i \in 1..Len(UpperChars) : UpperChars[i] = c]
    ELSE c

UpperChar(c) ==
    IF \E i \in 1..Len(LowerChars) : LowerChars[i] = c
    THEN UpperChars[CHOOSE i \in 1..Len(LowerChars) : LowerChars[i] = c]
    ELSE c

\* str.lower()
Lower(s) == [i \in 1..Len(s) |-> LowerChar(s[i])]

\* str.upper()
Upper(s) == [i \in 1..Len(s) |-> UpperChar(s[i])]

\* str.strip(): leading and trailing whitespace removed
Strip(s) ==
    LET idx == {i \in 1..Len(s) : s[i] \notin Whitespace}
    IN  IF idx = {} THEN <<>>
        ELSE LET lo == CHOOSE i \in idx : \A j \in idx : i <= j
                 hi == CHOOSE i \in idx : \A j \in idx : i >= j
             IN  SubSeq(s, lo, hi)

\* s[i:].startswith(pat)
StartsAt(s, i, pat) ==
    /\ i + Len(pat) - 1 <= Len(s)
    /\ \A k \in 1..Len(pat) : s[i + k - 1] = pat[k]

\* str.replace(pat, ""): every non-overlapping occurrence, left to right
RECURSIVE RemoveFrom(_, _, _)
RemoveFrom(s, i, pat) ==
    IF i > Len(s) THEN <<>>
    ELSE IF StartsAt(s, i, pat) THEN RemoveFrom(s, i + Len(pat), pat)
    ELSE <<s[i]>> \o RemoveFrom(s, i + 1, pat)

RemoveAll(s, pat) == RemoveFrom(s, 1, pat)

\* re.sub(r" \(.*\)", "", s): the leftmost " (" that has a ")" after it, up to
\* the last ")" of the string (".*" is greedy), is removed; nothing can match
\* after the last ")".
StripParenRegex(s) ==
    LET closes == {j \in 1..Len(s) : s[j] = ")"}
        opens  == {i \in 1..Len(s) : /\ StartsAt(s, i, <<" ", "(">>)
                                     /\ \E j \in closes : j >= i + 2}
    IN  IF opens = {} THEN s
        ELSE LET i == CHOOSE x \in opens : \A y \in opens : x <= y
                 j == CHOOSE x \in closes : \A y \in closes : x >= y
             IN  SubSeq(s, 1, i - 1) \o SubSeq(s, j + 1, Len(s))

IreSuffix == <<" ", "(", "i", "r", "e", ")">>
GbSuffix  == <<" ", "(", "g", "b", ")">>

\* normalize(text)
normalize(text) == RemoveAll(RemoveAll(Strip(Lower(text)), IreSuffix), GbSuffix)

\* race.split(" ", 1) with the except branch of main
UnknownTime    == <<"?", "?", ":", "?", "?">>
UnknownMeeting == <<"U", "n", "k", "n", "o", "w", "n">>

SplitRace(race) ==
    LET sp == {i \in 1..Len(race) : race[i] = " "}
    IN  IF sp = {} THEN [time_str |-> UnknownTime, meeting |-> UnknownMeeting]
        ELSE LET i == CHOOSE x \in sp : \A y \in sp : x <= y
             IN  [time_str |-> SubSeq(race, 1, i - 1),
                  meeting  |-> SubSeq(race, i + 1, Len(race))]


(***************************************************************************)
(* int(x), str(n) and str.isdigit() on character sequences.                *)
(***************************************************************************)
Digits == <<"0", "1", "2", "3", "4", "5", "6", "7", "8", "9">>

IsDigitChar(c) == \E i \in 1..Len(Digits) : Digits[i] = c

DigitVal(c) == (CHOOSE i \in 1..Len(Digits) : Digits[i] = c) - 1

\* str.isdigit()
IsDigit(s) == Len(s) > 0 /\ \A i \in 1..Len(s) : IsDigitChar(s[i])

RECURSIVE DigitsVal(_)
DigitsVal(s) ==
    IF s = <<>> THEN 0
    ELSE 10 * DigitsVal(SubSeq(s, 1, Len(s) - 1)) + DigitVal(s[Len(s)])

\* int(x) succeeds: optional surrounding whitespace, optional sign, digits
IntParses(s) ==
    LET t == Strip(s)
    IN  \/ IsDigit(t)
        \/ Len(t) > 1 /\ t[1] \in {"-", "+"} /\ IsDigit(Tail(t))

IntOf(s) ==
    LET t == Strip(s)
    IN  IF IsDigit(t) THEN DigitsVal(t)
        ELSE IF t[1] = "-" THEN 0 - DigitsVal(Tail(t))
        ELSE DigitsVal(Tail(t))

RECURSIVE StrOfNat(_)
StrOfNat(n) ==
    IF n < 10 THEN <<Digits[n + 1]>>
    ELSE StrOfNat(n \div 10) \o <<Digits[(n % 10) + 1]>>

\* str(n)
StrOfInt(n) == IF n < 0 THEN <<"-">> \o StrOfNat(0 - n) ELSE StrOfNat(n)

\* round(x, 2) of a value given in mills. Python rounds the binary float, so
\* what an exact half becomes depends on its representation; the prices of
\* the inputs below give no exact half, and the half-to-even branch is never
\* the one that decides a property.
Round2(m) ==
    LET q == m \div 10
        r == m % 10
    IN  IF r < 5 THEN q
        ELSE IF r > 5 THEN q + 1
        ELSE IF q % 2 = 0 THEN q ELSE q + 1

(***************************************************************************)
(* load_tips, load_results                                                 *)
(***************************************************************************)
\* a file is [exists, lines]; a missing tips file gives []
load_tips(file) == IF file.exists THEN file.lines ELSE <<>>

\* the three normalised columns of load_results; pos is left as read
NormalizeResultRow(r) ==
    [course |-> Lower(Strip(r.course)),
     horse  |-> Strip(StripParenRegex(Lower(r.horse))),
     off    |-> Strip(r.off),
     pos    |-> r.pos]

\* a missing results file gives an empty frame
load_results(file) ==
    IF file.exists
    THEN [i \in 1..Len(file.lines) |-> NormalizeResultRow(file.lines[i])]
    ELSE <<>>

(***************************************************************************)
(* One iteration of the loop of main                                       *)
(***************************************************************************)
NR   == <<"N", "R">>
One  == <<"1">>
Stake == 100
EwThreshold == 500
PlacesPaid == 3

\* the rows of results_df that match the tip, in table order
MatchRows(tip, results_df) ==
    LET race == SplitRace(tip.race)
    IN  {i \in 1..Len(results_df) :
            /\ results_df[i].course = normalize(race.meeting)
            /\ results_df[i].off = race.time_str
            /\ results_df[i].horse = normalize(tip.name)}

\* result: "NR" unless a row matches; then str(int(pos)) or the raw code,
\* stripped and upper-cased
ResultOf(tip, results_df) ==
    LET m == MatchRows(tip, results_df)
    IN  IF m = {} THEN NR
        ELSE LET pos_raw == results_df[CHOOSE i \in m : \A j \in m : i <= j].pos
             IN  IF IntParses(pos_raw) THEN StrOfInt(IntOf(pos_raw))
                 ELSE Upper(Strip(pos_raw))

OddsOf(tip) == IF tip.odds # 0 THEN tip.odds ELSE tip.bf_sp

BestOddsOf(tip) == IF tip.realistic_odds # 0 THEN tip.realistic_odds ELSE OddsOf(tip)

\* ew = odds >= 5.0 or tip.get("each_way", False)
IsEw(tip) == OddsOf(tip) >= EwThreshold \/ tip.each_way

\* each-way terms confused: a quarter of the odds instead of a fifth
EwProfitQuarterOdds(price, result) ==
    LET win   == IF result = One THEN (price - 100) * 5 ELSE 0
        place == IF IsDigit(result) /\ DigitsVal(result) <= PlacesPaid
                 THEN (price * 5) \div 4 - 500 ELSE 0 - 500
    IN  Round2(win + place)

\* each-way profit at one price (in mills before rounding)
EwProfit(price, result) ==
    LET win   == IF result = One THEN (price - 100) * 5 ELSE 0
        place == IF IsDigit(result) /\ DigitsVal(result) <= PlacesPaid
                 THEN price - 500 ELSE 0 - 500
    IN  Round2(win + place)

\* the returned stake counted as profit
WinProfitWithStake(price, result) ==
    Round2(IF result = One THEN price * (Stake \div 10) ELSE 0 - Stake * 10)

\* win-only profit at one price
WinProfit(price, result) ==
    Round2(IF result = One THEN (price - 100) * (Stake \div 10) ELSE 0 - Stake * 10)

\* the NR guard forgotten: a tip without result loses its stake
ProfitAtNoGuard(price, result, ew) ==
    IF ew THEN EwProfit(price, result) ELSE WinProfit(price, result)

\* the profit logic of main at one price
ProfitAt(price, result, ew) ==
    IF result = NR THEN 0
    ELSE IF ew THEN EwProfit(price, result)
    ELSE WinProfit(price, result)

\* the row appended to out_rows, given the running totals before it; the
\* totals are sums of profits already rounded to cents, so round(total, 2)
\* is the sum in cents
SettleRow(tip, results_df, date_str, running_profit, running_best_profit) ==
    LET race        == SplitRace(tip.race)
        result      == ResultOf(tip, results_df)
        ew          == IsEw(tip)
        profit      == ProfitAt(tip.bf_sp, result, ew)
        profit_best == ProfitAt(BestOddsOf(tip), result, ew)
    IN  [Date     |-> date_str,
         Meeting  |-> race.meeting,
         Time     |-> race.time_str,
         EwWin    |-> IF ew THEN "EW" ELSE "Win",
         Horse    |-> tip.name,
         Odds     |-> OddsOf(tip),
         SP       |-> tip.bf_sp,
         Result   |-> result,
         Stake    |-> Stake,
         Profit   |-> profit,
         RunningProfit |-> running_profit + profit,
         BestOdds |-> BestOddsOf(tip),
         RunningProfitBestOdds |-> running_best_profit + profit_best]

\* the local profit_best of the iteration (it is not a column of the row)
ProfitBestOf(tip, results_df) ==
    ProfitAt(BestOddsOf(tip), ResultOf(tip, results_df), IsEw(tip))


(***************************************************************************)
(* The log merger of main (lines 117-127)                                  *)
(***************************************************************************)
Realistic == "_realistic"

\* Series.str.contains("_realistic") on a Date cell
ContainsRealistic(date) == \E i \in 1..Len(date) : date[i] = Realistic

\* pd.DataFrame(out_rows): a frame built from no rows has no columns
DataFrame(rows) == [hasCols |-> rows # <<>>, rows |-> rows]

\* Series.isin(df_new['Horse'])
HorseIsIn(horse, df_new) == \E i \in 1..Len(df_new.rows) : df_new.rows[i].Horse = horse

RECURSIVE FilterRows(_, _, _)
\* boolean-mask selection: the rows kept, in their order
FilterRows(rows, date_str, df_new) ==
    IF rows = <<>> THEN <<>>
    ELSE LET r    == Head(rows)
             rest == FilterRows(Tail(rows), date_str, df_new)
         IN  IF ContainsRealistic(r.Date) THEN rest
             ELSE IF r.Date = date_str /\ HorseIsIn(r.Horse, df_new) THEN rest
             ELSE <<r>> \o rest

RECURSIVE FilterDayHorse(_, _, _)
FilterDayHorse(rows, date_str, df_new) ==
    IF rows = <<>> THEN <<>>
    ELSE LET r    == Head(rows)
             rest == FilterDayHorse(Tail(rows), date_str, df_new)
         IN  IF r.Date = date_str /\ HorseIsIn(r.Horse, df_new) THEN rest
             ELSE <<r>> \o rest

RECURSIVE FilterWholeDay(_, _)
FilterWholeDay(rows, date_str) ==
    IF rows = <<>> THEN <<>>
    ELSE LET r    == Head(rows)
             rest == FilterWholeDay(Tail(rows), date_str)
         IN  IF ContainsRealistic(r.Date) \/ r.Date = date_str THEN rest
             ELSE <<r>> \o rest

\* the legacy clean-up of line 121 left out
MergeFramesNoCleanup(df_old, df_new, date_str) ==
    [hasCols |-> TRUE,
     rows    |-> FilterDayHorse(df_old.rows, date_str, df_new) \o df_new.rows]

\* the whole day replaced instead of the horses of this run
MergeFramesWholeDay(df_old, df_new, date_str) ==
    [hasCols |-> TRUE,
     rows    |-> FilterWholeDay(df_old.rows, date_str) \o df_new.rows]

\* the old log overwritten by this run's rows
MergeFramesOverwrite(df_old, df_new, date_str) == df_new

\* lines 121-123: both filters, then pd.concat([df_master, df_new])
MergeFrames(df_old, df_new, date_str) ==
    [hasCols |-> TRUE,
     rows    |-> FilterRows(df_old.rows, date_str, df_new) \o df_new.rows]

\* the master log file: absent, a file written from a frame without columns
\* ("blank"), or a table with a header line
AbsentLog == [kind |-> "absent", rows |-> <<>>]

\* DataFrame.to_csv(MASTER_LOG, index=False)
to_csv(df) ==
    IF df.hasCols THEN [kind |-> "table", rows |-> df.rows]
    ELSE [kind |-> "blank", rows |-> <<>>]

\* pd.read_csv(MASTER_LOG) of a table
read_csv(file) == [hasCols |-> TRUE, rows |-> file.rows]

\* lines 119-125 raise instead of producing df_master:
\*  - a blank file has no "Date" column to read (line 120/121);
\*  - df_new built from no rows has no "Horse" column (line 122).
MergeRaises(file, df_new) ==
    /\ file.kind # "absent"
    /\ file.kind = "blank" \/ ~df_new.hasCols

\* df_master of lines 119-125 when nothing is raised
MergedMaster(file, df_new, date_str) ==
    IF file.kind = "absent" THEN df_new
    ELSE MergeFrames(read_csv(file), df_new, date_str)

(***************************************************************************)
(* State                                                                   *)
(***************************************************************************)
Procs == {1, 2}
Day1 == "2025-06-01"
Day2 == "2025-06-02"
Days == {Day1, Day2}
DayOfProc(p) == IF p = 1 THEN Day1 ELSE Day2

VARIABLES
    tipsFile,             \* day -> logs/sent_tips_<day>.jsonl
    resultsFile,          \* day -> rpscrape/data/dates/all/<day>.csv
    masterLog,            \* logs/master_subscriber_log.csv
    pc,                   \* per invocation slot: idle, loop, write, done, failed
    date_str, tips, results_df, out_rows,
    running_profit, running_best_profit,
    df_master,
    best_profits,         \* history of the local profit_best, one per iteration
    snapshot,             \* the master log as read at line 119
    seen,                 \* number of runs finished when line 119 was reached
    hist,                 \* finished runs, in order of finishing
    runsLeft              \* invocations still to be started

vars == <<tipsFile, resultsFile, masterLog, pc, date_str, tips, results_df,
          out_rows, running_profit, running_best_profit, df_master,
          best_profits, snapshot, seen, hist, runsLeft>>

inputs == <<tipsFile, resultsFile>>

(***************************************************************************)
(* Actions                                                                 *)
(***************************************************************************)
\* the running totals carried over from the previous invocation
BeginKeepTotals(p, d) ==
    /\ pc[p] \in {"idle", "done", "failed"}
    /\ runsLeft > 0
    /\ runsLeft' = runsLeft - 1
    /\ pc' = [pc EXCEPT ![p] = "loop"]
    /\ date_str' = [date_str EXCEPT ![p] = <<d>>]
    /\ tips' = [tips EXCEPT ![p] = load_tips(tipsFile[d])]
    /\ results_df' = [results_df EXCEPT ![p] = load_results(resultsFile[d])]
    /\ out_rows' = [out_rows EXCEPT ![p] = <<>>]
    /\ best_profits' = [best_profits EXCEPT ![p] = <<>>]
    /\ UNCHANGED <<inputs, masterLog, df_master, snapshot, seen, hist,
                   running_profit, running_best_profit>>

\* lines 37-42: a new invocation main(d)
Begin(p, d) ==
    /\ pc[p] \in {"idle", "done", "failed"}
    /\ runsLeft > 0
    /\ runsLeft' = runsLeft - 1
    /\ pc' = [pc EXCEPT ![p] = "loop"]
    /\ date_str' = [date_str EXCEPT ![p] = <<d>>]
    /\ tips' = [tips EXCEPT ![p] = load_tips(tipsFile[d])]
    /\ results_df' = [results_df EXCEPT ![p] = load_results(resultsFile[d])]
    /\ out_rows' = [out_rows EXCEPT ![p] = <<>>]
    /\ running_profit' = [running_profit EXCEPT ![p] = 0]
    /\ running_best_profit' = [running_best_profit EXCEPT ![p] = 0]
    /\ best_profits' = [best_profits EXCEPT ![p] = <<>>]
    /\ UNCHANGED <<inputs, masterLog, df_master, snapshot, seen, hist>>

\* lines 44-115: one iteration of the loop
SettleTip(p) ==
    /\ pc[p] = "loop"
    /\ Len(out_rows[p]) < Len(tips[p])
    /\ LET tip == tips[p][Len(out_rows[p]) + 1]
           row == SettleRow(tip, results_df[p], date_str[p],
                            running_profit[p], running_best_profit[p])
       IN  /\ out_rows' = [out_rows EXCEPT ![p] = Append(@, row)]
           /\ running_profit' = [running_profit EXCEPT ![p] = row.RunningProfit]
           /\ running_best_profit' =
                  [running_best_profit EXCEPT ![p] = row.RunningProfitBestOdds]
           /\ best_profits' = [best_profits EXCEPT
                  ![p] = Append(@, ProfitBestOf(tip, results_df[p]))]
    /\ UNCHANGED <<inputs, masterLog, pc, date_str, tips, results_df, df_master,
                   snapshot, seen, hist, runsLeft>>

\* lines 117-125: build df_new, read the master log and merge; an exception
\* ends the invocation before line 127
Merge(p) ==
    /\ pc[p] = "loop"
    /\ Len(out_rows[p]) = Len(tips[p])
    /\ snapshot' = [snapshot EXCEPT ![p] = masterLog]
    /\ seen' = [seen EXCEPT ![p] = Len(hist)]
    /\ IF MergeRaises(masterLog, DataFrame(out_rows[p]))
       THEN /\ pc' = [pc EXCEPT ![p] = "failed"]
            /\ hist' = Append(hist, [proc |-> p, date |-> date_str[p],
                                     status |-> "failed", seen |-> Len(hist),
                                     tipsExist |-> tipsFile[date_str[p][1]].exists,
                                     before |-> masterLog, out |-> out_rows[p],
                                     after |-> masterLog])
            /\ UNCHANGED df_master
       ELSE /\ pc' = [pc EXCEPT ![p] = "write"]
            /\ df_master' = [df_master EXCEPT
                   ![p] = MergedMaster(masterLog, DataFrame(out_rows[p]), date_str[p])]
            /\ UNCHANGED hist
    /\ UNCHANGED <<inputs, masterLog, date_str, tips, results_df, out_rows,
                   running_profit, running_best_profit, best_profits, runsLeft>>

\* line 127
Write(p) ==
    /\ pc[p] = "write"
    /\ masterLog' = to_csv(df_master[p])
    /\ pc' = [pc EXCEPT ![p] = "done"]
    /\ hist' = Append(hist, [proc |-> p, date |-> date_str[p],
                             status |-> "done", seen |-> seen[p],
                             tipsExist |-> tipsFile[date_str[p][1]].exists,
                             before |-> snapshot[p], out |-> out_rows[p],
                             after |-> to_csv(df_master[p])])
    /\ UNCHANGED <<inputs, date_str, tips, results_df, out_rows, running_profit,
                   running_best_profit, df_master, best_profits, snapshot, seen,
                   runsLeft>>


(***************************************************************************)
(* Inputs                                                                  *)
(***************************************************************************)
SeqsUpTo(S, n) == UNION {[1..k -> S] : k \in 0..n}

\* horse names as they appear in tips and in result tables
Ab      == <<"A", "b">>
AbLower == <<" ", "a", "b">>
AbIre   == <<"A", "b", " ", "(", "I", "R", "E", ")">>
AbGb    == <<"A", "b", " ", "(", "G", "B", ")", " ">>
AbFr    == <<"A", "b", " ", "(", "F", "R", ")">>
AbIreUp == <<"A", "B", " ", "(", "I", "R", "E", ")">>
Cd      == <<"C", "d">>
Ef      == <<"E", "f">>

RaceAs    == <<"2", ":", "3", "0", " ", "A", "s">>
RaceNoSep == <<"2", ":", "3", "0">>
OffAs     == <<"2", ":", "3", "0">>
CourseAs  == <<" ", "A", "S">>

Tip(race, name, bf_sp, odds, realistic_odds, each_way) ==
    [race |-> race, name |-> name, bf_sp |-> bf_sp, odds |-> odds,
     realistic_odds |-> realistic_odds, each_way |-> each_way]

\* tips that differ in the spelling of the horse or of the race label
NameTips ==
    {Tip(RaceAs, n, 400, 400, 0, FALSE) : n \in {Ab, AbLower, AbIre, AbGb, AbFr, Cd}}
    \cup {Tip(RaceNoSep, Ab, 400, 400, 0, FALSE)}

\* tips that differ in prices and in the each_way hint
PriceTips ==
    {Tip(RaceAs, Ab, 422, 422, 0, TRUE),
     Tip(RaceAs, Ab, 150, 150, 0, TRUE),
     Tip(RaceAs, Ab, 800, 0, 0, FALSE),
     Tip(RaceAs, Ab, 422, 500, 450, FALSE),
     Tip(RaceAs, Ab, 0, 400, 450, FALSE),
     Tip(RaceAs, Ab, 422, 0, 450, FALSE)}

SettleTips == NameTips \cup PriceTips

MergeTips == {Tip(RaceAs, Ab, 400, 400, 450, FALSE), Tip(RaceAs, Cd, 422, 600, 0, FALSE)}

ResultRow(course, off, horse, pos) ==
    [course |-> course, off |-> off, horse |-> horse, pos |-> pos]

\* cells of the pos column
PosCells == {<<"1">>, <<"2">>, <<"3">>, <<"4">>, <<"1", "0">>,
             <<"P", "U">>, <<"F">>, <<" ", "n", "r">>}

File(lines) == [exists |-> TRUE, lines |-> lines]
NoFile == [exists |-> FALSE, lines |-> <<>>]

SettleResultFiles ==
    {NoFile} \cup
    {File(<<ResultRow(CourseAs, OffAs, h, pos)>>) :
        h \in {AbIreUp, AbFr}, pos \in PosCells}

MergeResultFile ==
    File(<<ResultRow(CourseAs, OffAs, AbIreUp, <<"1">>),
           ResultRow(CourseAs, OffAs, Cd, <<"4">>)>>)

\* rows of an existing master log
Day0 == "2025-05-31"

LogRow(date, horse, result, profit) ==
    [Date |-> date, Meeting |-> <<"A", "s">>, Time |-> OffAs, EwWin |-> "Win",
     Horse |-> horse, Odds |-> 400, SP |-> 400, Result |-> result,
     Stake |-> Stake, Profit |-> profit, RunningProfit |-> profit,
     BestOdds |-> 400, RunningProfitBestOdds |-> profit]

Table(rows) == [kind |-> "table", rows |-> rows]

InitLogs ==
    {AbsentLog,
     Table(<<LogRow(<<Day0>>, Ab, One, 300),
             LogRow(<<Day1, Realistic>>, Ab, One, 300),
             LogRow(<<Day1>>, Ab, NR, 0),
             LogRow(<<Day1>>, Ef, <<"2">>, 0 - 100),
             LogRow(<<Day2>>, Cd, NR, 0)>>),
     Table(<<LogRow(<<Day2, Realistic>>, Cd, NR, 0)>>)}

TipFiles(S, n) == {NoFile} \cup {File(l) : l \in SeqsUpTo(S, n)}

InitWith(tipFiles1, tipFiles2, resFiles1, resFiles2, logs, n) ==
    /\ tipsFile \in {[d \in Days |-> IF d = Day1 THEN f1 ELSE f2] :
                        f1 \in tipFiles1, f2 \in tipFiles2}
    /\ resultsFile \in {[d \in Days |-> IF d = Day1 THEN f1 ELSE f2] :
                        f1 \in resFiles1, f2 \in resFiles2}
    /\ masterLog \in logs
    /\ pc = [p \in Procs |-> "idle"]
    /\ date_str = [p \in Procs |-> <<Day1>>]
    /\ tips = [p \in Procs |-> <<>>]
    /\ results_df = [p \in Procs |-> <<>>]
    /\ out_rows = [p \in Procs |-> <<>>]
    /\ running_profit = [p \in Procs |-> 0]
    /\ running_best_profit = [p \in Procs |-> 0]
    /\ df_master = [p \in Procs |-> DataFrame(<<>>)]
    /\ best_profits = [p \in Procs |-> <<>>]
    /\ snapshot = [p \in Procs |-> AbsentLog]
    /\ seen = [p \in Procs |-> 0]
    /\ hist = <<>>
    /\ runsLeft = n

\* one invocation over varied tips and results
InitSettle ==
    InitWith({File(l) : l \in SeqsUpTo(SettleTips, MaxTips)}, {NoFile},
             SettleResultFiles, {NoFile}, {AbsentLog}, 1)

\* up to MaxRuns invocations, one after the other, over an existing log
InitMerge ==
    InitWith(TipFiles(MergeTips, MaxLogTips), TipFiles(MergeTips, MaxLogTips),
             {MergeResultFile}, {NoFile}, InitLogs, MaxRuns)

\* two invocations that may overlap, one per day
InitConc ==
    InitWith(TipFiles(MergeTips, MaxLogTips), TipFiles(MergeTips, MaxLogTips),
             {MergeResultFile}, {NoFile}, InitLogs, 2)

\* one process at a time: every invocation runs to its end before the next
NextSeq ==
    \/ \E d \in Days : Begin(1, d)
    \/ SettleTip(1)
    \/ Merge(1)
    \/ Write(1)

\* two processes, each settling its own day
Next ==
    \E p \in Procs :
        \/ Begin(p, DayOfProc(p))
        \/ SettleTip(p)
        \/ Merge(p)
        \/ Write(p)

SpecSettle == InitSettle /\ [][NextSeq]_vars
SpecMerge  == InitMerge /\ [][NextSeq]_vars
Spec       == InitConc /\ [][Next]_vars


(***************************************************************************)
(* The dashboard's recomputation (streamlit_dashboard_app.py)              *)
(***************************************************************************)
\* calc_win_profit(row)
calc_win_profit(row) ==
    IF row.Result = NR THEN 0
    ELSE Round2(IF row.Result = One THEN (row.SP - 100) * (row.Stake \div 10)
                ELSE 0 - row.Stake * 10)

\* calc_ew_profit(row)
calc_ew_profit(row) ==
    IF row.Result = NR THEN 0
    ELSE LET win_part   == IF row.Result = One THEN (row.SP - 100) * 5 ELSE 0
             place_part == IF IsDigit(row.Result) /\ DigitsVal(row.Result) <= 3
                           THEN row.SP - 500 ELSE 0 - 500
         IN  Round2(win_part + place_part)

(***************************************************************************)
(* Vocabulary of the properties                                            *)
(***************************************************************************)
RECURSIVE SumTo(_, _)
SumTo(seq, k) == IF k = 0 THEN 0 ELSE SumTo(seq, k - 1) + seq[k]

ProfitColumn(rows) == [i \in 1..Len(rows) |-> rows[i].Profit]

RowSet(rows) == {rows[i] : i \in 1..Len(rows)}

HorsesOf(rows) == {rows[i].Horse : i \in 1..Len(rows)}

HasRealistic(rows) == \E i \in 1..Len(rows) : ContainsRealistic(rows[i].Date)

\* rows i < j of the same (Date, Horse)
HasDuplicate(rows, date) ==
    \E i, j \in 1..Len(rows) :
        i < j /\ rows[i].Date = date /\ rows[j].Date = date
              /\ rows[i].Horse = rows[j].Horse

NotRealisticRow(r) == ~ContainsRealistic(r.Date)

\* the tips settled so far by process p, with their rows
Settled(p) == 1..Len(out_rows[p])

\* the position cell of the first matching row
PosRawOf(tip, df) ==
    LET m == MatchRows(tip, df)
    IN  df[CHOOSE i \in m : \A j \in m : i <= j].pos

\* the each-way formula of the specification, in mills, not rounded
EwFormulaMills(price, r) ==
    (IF r = One THEN (price - 100) * 5 ELSE 0)
    + (IF IsDigit(r) /\ DigitsVal(r) <= 3 THEN (price * 2 - 1000) \div 2 ELSE 0 - 500)

\* cents is mills rounded to the nearest cent
RoundedFrom(cents, mills) == (10 * cents - mills) \in (0 - 5)..5

\* the normalisation the specification describes: lower case, trimmed, a
\* trailing parenthetical removed
DropTrailingParen(s) ==
    LET opens == {i \in 1..Len(s) : s[i] = "("}
    IN  IF Len(s) > 0 /\ s[Len(s)] = ")" /\ opens # {}
        THEN SubSeq(s, 1, (CHOOSE i \in opens : \A j \in opens : i >= j) - 1)
        ELSE s

SpecNormalize(s) == Strip(DropTrailingParen(Strip(Lower(s))))


(***************************************************************************)
(* Properties                                                              *)
(***************************************************************************)

\* C1 (as claimed): two invocations in a row for the same date leave the same
\* master log, and that log has no two rows of the same (Date, Horse) for the
\* date.
C1_MergeIdempotent ==
    \A i \in 1..(Len(hist) - 1) :
        hist[i].date = hist[i + 1].date =>
            /\ hist[i + 1].after = hist[i].after
            /\ ~HasDuplicate(hist[i + 1].after.rows, hist[i].date)

\* C2 (as claimed): an invocation whose tips file is absent settles no row,
\* runs to its end and leaves in the master log exactly the rows it held, less
\* the "_realistic" ones.
C2_AbsentTipsOnlyCleanup ==
    \A i \in 1..Len(hist) :
        ~hist[i].tipsExist =>
            /\ hist[i].out = <<>>
            /\ hist[i].status = "done"
            /\ hist[i].after.rows = SelectSeq(hist[i].before.rows, NotRealisticRow)

\* C3 (amended): a tip without a matching result row gets Result "NR"; every
\* "NR" row has Profit 0 and best-odds profit 0 whatever the prices and the
\* bet type; a matched tip whose position is not an integer and not the code
\* NR keeps the code (trimmed, upper case) as its Result and is settled as a
\* loser: minus the stake win-only, minus the place half-stake each-way.
C3_UnmatchedIsNRCodeLoses ==
    \A p \in Procs : \A k \in Settled(p) :
        LET tip == tips[p][k]
            row == out_rows[p][k]
            m   == MatchRows(tip, results_df[p])
            lose == IF row.EwWin = "EW" THEN 0 - 50 ELSE 0 - 100
        IN  /\ m = {} => row.Result = NR
            /\ row.Result = NR => row.Profit = 0 /\ best_profits[p][k] = 0
            /\ (m # {} /\ ~IntParses(PosRawOf(tip, results_df[p]))
                       /\ Upper(Strip(PosRawOf(tip, results_df[p]))) # NR) =>
                   /\ row.Result = Upper(Strip(PosRawOf(tip, results_df[p])))
                   /\ row.Profit = lose
                   /\ best_profits[p][k] = lose

\* C3 (as claimed): unmatched tips and tips whose position does not parse as
\* an integer are both "NR" with Profit 0 and best-odds profit 0.
C3_UnparseableIsNR ==
    \A p \in Procs : \A k \in Settled(p) :
        LET tip == tips[p][k]
            row == out_rows[p][k]
            m   == MatchRows(tip, results_df[p])
        IN  (m = {} \/ ~IntParses(PosRawOf(tip, results_df[p]))) =>
                /\ row.Result = NR
                /\ row.Profit = 0
                /\ best_profits[p][k] = 0

\* C3 witness: one run settled an unmatched each-way tip and a tip matched to
\* a pulled-up runner.
C3_Witness ==
    \E p \in Procs : \E k1, k2 \in Settled(p) :
        /\ MatchRows(tips[p][k1], results_df[p]) = {}
        /\ out_rows[p][k1].Result = NR
        /\ MatchRows(tips[p][k2], results_df[p]) # {}
        /\ out_rows[p][k2].Result = <<"P", "U">>
        /\ out_rows[p][k2].EwWin = "EW"
        /\ out_rows[p][k2].Profit = 0 - 50

\* C4 (amended): a tip settled win-only (each_way hint false and odds below
\* 5.0) whose Result is not "NR" has Profit (SP - 1) * stake when the Result
\* is "1" and minus the stake otherwise, and the same rule at the best-odds
\* price gives the best-odds profit; the dashboard's calc_win_profit agrees.
C4_WinOnlyProfit ==
    \A p \in Procs : \A k \in Settled(p) :
        LET tip == tips[p][k]
            row == out_rows[p][k]
        IN  (~tip.each_way /\ row.Odds < 500 /\ row.Result # NR) =>
                /\ row.EwWin = "Win"
                /\ row.Profit = IF row.Result = One THEN row.SP - 100 ELSE 0 - 100
                /\ best_profits[p][k] =
                       IF row.Result = One THEN row.BestOdds - 100 ELSE 0 - 100
                /\ calc_win_profit(row) = row.Profit

\* C4 (as claimed): every tip with the each_way hint false and a price of at
\* least 1.0, odds of 5.0 or more included, has Profit (SP - 1) * stake when
\* the Result is "1" and minus the stake otherwise (read here for the tips
\* that have a result).
C4_HintFalseIsWinOnly ==
    \A p \in Procs : \A k \in Settled(p) :
        LET tip == tips[p][k]
            row == out_rows[p][k]
        IN  (~tip.each_way /\ tip.bf_sp >= 100 /\ row.Result # NR) =>
                row.Profit = IF row.Result = One THEN row.SP - 100 ELSE 0 - 100

\* C4 witness: a win-only winner at SP 4.22 whose best-odds price differs.
C4_Witness ==
    \E p \in Procs : \E k \in Settled(p) :
        /\ ~tips[p][k].each_way
        /\ out_rows[p][k].EwWin = "Win"
        /\ out_rows[p][k].Result = One
        /\ out_rows[p][k].SP = 422
        /\ out_rows[p][k].Profit = 322
        /\ best_profits[p][k] = 350

\* C5 (amended): for an each-way tip with a Result other than "NR", Profit is
\* the each-way formula at SP rounded to the nearest cent, the best-odds
\* profit is the same formula at the best-odds price rounded to the nearest
\* cent, and calc_ew_profit of the written row returns the row's Profit.
C5_EachWayProfitRounded ==
    \A p \in Procs : \A k \in Settled(p) :
        LET row == out_rows[p][k]
        IN  (row.EwWin = "EW" /\ row.Result # NR) =>
                /\ RoundedFrom(row.Profit, EwFormulaMills(row.SP, row.Result))
                /\ RoundedFrom(best_profits[p][k],
                               EwFormulaMills(row.BestOdds, row.Result))
                /\ calc_ew_profit(row) = row.Profit

\* C5 (as claimed): Profit and the best-odds profit equal the each-way formula.
C5_EachWayProfitExact ==
    \A p \in Procs : \A k \in Settled(p) :
        LET row == out_rows[p][k]
        IN  (row.EwWin = "EW" /\ row.Result # NR) =>
                /\ 10 * row.Profit = EwFormulaMills(row.SP, row.Result)
                /\ 10 * best_profits[p][k] = EwFormulaMills(row.BestOdds, row.Result)
                /\ calc_ew_profit(row) = row.Profit

\* C5 witness: an each-way tip placed second at SP 4.22 and best odds 4.50.
C5_Witness ==
    \E p \in Procs : \E k \in Settled(p) :
        /\ out_rows[p][k].EwWin = "EW"
        /\ out_rows[p][k].Result = <<"2">>
        /\ out_rows[p][k].SP = 422
        /\ out_rows[p][k].BestOdds = 450
        /\ out_rows[p][k].Profit = 0 - 8
        /\ best_profits[p][k] = 0 - 5

\* C6 (as claimed): a tip and a result row of the same course and off time
\* whose horse names are equal once lower-cased, trimmed and freed of a
\* trailing parenthetical are matched.
C6_NormalizationInvariant ==
    \A p \in Procs : \A k \in Settled(p) :
        LET tip  == tips[p][k]
            race == SplitRace(tip.race)
            raw  == resultsFile[date_str[p][1]].lines
        IN  \A j \in 1..Len(raw) :
                (/\ SpecNormalize(raw[j].course) = SpecNormalize(race.meeting)
                 /\ Strip(raw[j].off) = Strip(race.time_str)
                 /\ SpecNormalize(raw[j].horse) = SpecNormalize(tip.name))
                => j \in MatchRows(tip, results_df[p])

\* C7: on every output row the running totals are the sums of Profit and of
\* the best-odds profit over the tips of this invocation up to that row.
C7_RunningTotalsArePrefixSums ==
    \A p \in Procs : \A k \in Settled(p) :
        /\ out_rows[p][k].RunningProfit = SumTo(ProfitColumn(out_rows[p]), k)
        /\ out_rows[p][k].RunningProfitBestOdds = SumTo(best_profits[p], k)

\* C7 witness: a second row is written by an invocation that follows a
\* finished one with a non-zero total, over a master log that holds rows.
C7_Witness ==
    /\ Len(hist) > 0
    /\ hist[1].status = "done"
    /\ hist[1].out # <<>>
    /\ hist[1].out[Len(hist[1].out)].RunningProfit # 0
    /\ masterLog.rows # <<>>
    /\ Len(out_rows[1]) = 2
    /\ out_rows[1][1].Profit # 0
    /\ out_rows[1][2].Profit # 0
    /\ out_rows[1][2].RunningProfitBestOdds # out_rows[1][2].RunningProfit

\* C8: once an invocation has written the master log, the log holds no row
\* whose Date carries "_realistic".
C8_NoRealisticAfterWrite ==
    /\ \A i \in 1..Len(hist) :
           hist[i].status = "done" => ~HasRealistic(hist[i].after.rows)
    /\ (\E i \in 1..Len(hist) : hist[i].status = "done") =>
           ~HasRealistic(masterLog.rows)

\* C8 witness: an invocation wrote over a log that held a "_realistic" row.
C8_Witness ==
    \E i \in 1..Len(hist) :
        /\ hist[i].status = "done"
        /\ HasRealistic(hist[i].before.rows)
        /\ masterLog = hist[i].after

\* C9: of two finished invocations for different dates, when the second
\* writer read the log before the first wrote it, the final log is what the
\* second writer made of the log it read, so it holds none of the first
\* writer's rows that log did not hold; when the second read after the first
\* wrote, the final log holds the rows of both.
C9_LastWriterWins ==
    (/\ Len(hist) = 2
     /\ hist[1].status = "done" /\ hist[2].status = "done"
     /\ hist[1].date # hist[2].date) =>
        IF hist[2].seen = 0
        THEN /\ masterLog.rows =
                    SelectSeq(hist[1].before.rows,
                              LAMBDA r : /\ NotRealisticRow(r)
                                         /\ ~(r.Date = hist[2].date
                                              /\ r.Horse \in HorsesOf(hist[2].out)))
                    \o hist[2].out
             /\ \A r \in RowSet(hist[1].out) :
                    r \in RowSet(masterLog.rows) => r \in RowSet(hist[1].before.rows)
        ELSE RowSet(hist[1].out) \cup RowSet(hist[2].out) \subseteq RowSet(masterLog.rows)

\* C9 witness: both invocations read the log before either wrote it, and each
\* settled at least one tip.
C9_Witness ==
    /\ Len(hist) = 2
    /\ hist[1].status = "done" /\ hist[2].status = "done"
    /\ hist[1].date # hist[2].date
    /\ hist[1].seen = 0 /\ hist[2].seen = 0
    /\ hist[1].out # <<>> /\ hist[2].out # <<>>
    /\ hist[1].before.kind = "table"
    /\ RowSet(hist[1].out) \cap RowSet(masterLog.rows) = {}

\* C10: an invocation for date D with at least one tip, over an existing
\* table, keeps in their order exactly the rows that neither carry
\* "_realistic" nor have Date D and a Horse of this run, and appends this
\* run's rows after them in the order of the tips file.
C10_MergeFrame ==
    \A i \in 1..Len(hist) :
        (hist[i].status = "done" /\ hist[i].out # <<>> /\ hist[i].before.kind = "table") =>
            /\ hist[i].after.rows =
                   SelectSeq(hist[i].before.rows,
                             LAMBDA r : /\ NotRealisticRow(r)
                                        /\ ~(r.Date = hist[i].date
                                             /\ r.Horse \in HorsesOf(hist[i].out)))
                   \o hist[i].out
            /\ Len(hist[i].out) = Len(tipsFile[hist[i].date[1]].lines)
            /\ \A k \in 1..Len(hist[i].out) :
                   hist[i].out[k].Horse = tipsFile[hist[i].date[1]].lines[k].name

\* C10 witness: a run for a date replaced one horse's row of that date, kept
\* another horse's row of the same date and dropped a "_realistic" row.
C10_Witness ==
    \E i \in 1..Len(hist) :
        /\ hist[i].status = "done"
        /\ hist[i].out # <<>>
        /\ HasRealistic(hist[i].before.rows)
        /\ \E a, b \in 1..Len(hist[i].before.rows) :
               /\ hist[i].before.rows[a].Date = hist[i].date
               /\ hist[i].before.rows[a].Horse \in HorsesOf(hist[i].out)
               /\ hist[i].before.rows[a] \notin RowSet(hist[i].after.rows)
               /\ hist[i].before.rows[b].Date = hist[i].date
               /\ hist[i].before.rows[b] \in RowSet(hist[i].after.rows)

====
